---- MODULE Spec2Model ----
(***************************************************************************)
(* Model of the form-submission backend in src/server.js (the revision     *)
(* with the MongoDB backup, lines 195-478): four JSON-file collections,    *)
(* the submission handlers that append to them, the count / admin          *)
(* endpoints, and the periodic syncToMongoDB job.                          *)
(*                                                                         *)
(* Strings the code inspects character by character (trim, toLowerCase,    *)
(* parseInt) are sequences of one-character strings.  A JSON value of a    *)
(* request body is a record [k, s]: k is "absent" (undefined), "str" or    *)
(* "num"; s holds the characters (for a number, its decimal spelling,      *)
(* which is what parseInt sees after ToString).                            *)
(* An email such as "a@x.com" is abbreviated to its first letter.          *)
(***************************************************************************)
EXTENDS Integers, Sequences, FiniteSets, TLC

\* ---------------------------------------------------------------- bounds
\* Most records held by the four files together.
MaxRecords == 2
\* Last value of the millisecond clock behind new Date().
MaxTime == 1

\* ------------------------------------------------------------- JS values
Absent == [k |-> "absent", s |-> <<>>]
Str(s) == [k |-> "str", s |-> s]
Num(s) == [k |-> "num", s |-> s]

\* !v of JavaScript for the values above: undefined, "" and 0 are falsy.
Falsy(v) ==
  \/ v.k = "absent"
  \/ v.k = "str" /\ v.s = <<>>
  \/ v.k = "num" /\ v.s = <<"0">>

\* v || d
OrDefault(v, d) == IF Falsy(v) THEN d ELSE v

IsSpace(c) == c = " "

RECURSIVE TrimStart(_)
TrimStart(s) ==
  IF s # <<>> /\ IsSpace(Head(s)) THEN TrimStart(Tail(s)) ELSE s

RECURSIVE TrimEnd(_)
TrimEnd(s) ==
  IF s # <<>> /\ IsSpace(s[Len(s)]) THEN TrimEnd(SubSeq(s, 1, Len(s) - 1)) ELSE s

\* String.prototype.trim
Trim(s) == TrimEnd(TrimStart(s))

LowerChar(c) ==
  CASE c = "A" -> "a"
    [] c = "B" -> "b"
    [] OTHER -> c

\* String.prototype.toLowerCase
ToLowerCase(s) == [i \in 1..Len(s) |-> LowerChar(s[i])]

Digits == {"0", "1", "2", "3", "4", "5", "6", "7", "8", "9"}

DigitVal(c) ==
  CASE c = "0" -> 0 [] c = "1" -> 1 [] c = "2" -> 2 [] c = "3" -> 3
    [] c = "4" -> 4 [] c = "5" -> 5 [] c = "6" -> 6 [] c = "7" -> 7
    [] c = "8" -> 8 [] c = "9" -> 9

NaN == [nan |-> TRUE, n |-> 0]
Int32(n) == [nan |-> FALSE, n |-> n]

\* Value of the longest run of digits at the front of s, read left to right.
RECURSIVE ReadDigits(_, _, _)
ReadDigits(s, acc, seen) ==
  IF s # <<>> /\ Head(s) \in Digits
    THEN ReadDigits(Tail(s), acc * 10 + DigitVal(Head(s)), TRUE)
    ELSE IF seen THEN Int32(acc) ELSE NaN

\* parseInt(v, 10): ToString, skip leading white space, an optional sign, then
\* the longest digit prefix; NaN when there is none (undefined reads "undefined").
ParseInt(v) ==
  IF v.k = "absent" THEN NaN
  ELSE LET t == TrimStart(v.s)
           neg == t # <<>> /\ Head(t) = "-"
           signed == t # <<>> /\ Head(t) \in {"-", "+"}
           r == ReadDigits(IF signed THEN Tail(t) ELSE t, 0, FALSE)
       IN IF r.nan THEN NaN ELSE Int32(IF neg THEN 0 - r.n ELSE r.n)

\* p || d for a parseInt result p: NaN and 0 are falsy.
NumOr(p, d) == IF p.nan \/ p.n = 0 THEN d ELSE p.n

\* ------------------------------------------------------------------ state
DONATIONS_FILE == "donations"
VOLUNTEER_FILE == "volunteer"
NEWSLETTER_FILE == "newsletter"
CONTACT_FILE == "contact"
Files == {DONATIONS_FILE, VOLUNTEER_FILE, NEWSLETTER_FILE, CONTACT_FILE}

\* Price of one parcel (countNum * 75).
ParcelPrice == 75

ADMIN_ID == "A@b@c"
ADMIN_PASS == "A@b@c"

VARIABLES
  files,   \* files[f]: the JSON array held by data file f, as a sequence
  ext,     \* ext[f]: the documents of the MongoDB collection mirroring f
  now,     \* the clock read by new Date()
  last     \* the latest request or timer callback and what it answered

vars == <<files, ext, now, last>>

\* A response not yet given; every handler fills the fields it answers with.
NoResp ==
  [op |-> "none", status |-> 0, count |-> 0, lacking |-> FALSE,
   readOk |-> TRUE, wrote |-> FALSE, email |-> Absent,
   parcelCount |-> Absent, totalAmount |-> Absent, error |-> "", runs |-> 0, up |-> TRUE,
   message |-> "", file |-> "", cond |-> "array", data |-> <<>>]

TotalRecords == Len(files[DONATIONS_FILE]) + Len(files[VOLUNTEER_FILE])
                + Len(files[NEWSLETTER_FILE]) + Len(files[CONTACT_FILE])

\* -------------------------------------------------------------- the store
\* safeReadJSON(file, []): the parsed array, or the fallback [] when the file
\* cannot be read or parsed (readOk = FALSE: readFileSync or JSON.parse threw).
SafeReadJSON(fs, file, readOk) == IF readOk THEN fs[file] ELSE <<>>

\* readJSON(filePath): the sync job's reader, same fallback.
ReadJSON(fs, file, readOk) == IF readOk THEN fs[file] ELSE <<>>

\* safeWriteJSON(file, data): rewrites the whole file; FALSE when writeFileSync
\* threw (the file then keeps its content).
SafeWriteJSON(fs, file, data, writeOk) ==
  [files |-> IF writeOk THEN [fs EXCEPT ![file] = data] ELSE fs, ok |-> writeOk]

\* pushEntry(file, entryObj): read, push, write, return data.length.
PushEntry(fs, file, entryObj, readOk, writeOk) ==
  LET data == Append(SafeReadJSON(fs, file, readOk), entryObj)
      w == SafeWriteJSON(fs, file, data, writeOk)
  IN [files |-> w.files, count |-> Len(data), wrote |-> w.ok]

\* ------------------------------------------------------- the file on disk
\* What the two readers can find at a path: no file, a file that cannot be
\* read (readFileSync throws), an empty file, a file of blanks only, a file
\* whose text is not JSON, and a file whose text is the JSON of an array.
\* readOk above is the last case; every other one is readOk = FALSE.
FileConds == {"missing", "unreadable", "empty", "blank", "garbage", "array"}

\* fs.existsSync(file)
ExistsSync(cond) == cond # "missing"

\* fs.readFileSync(file, "utf8"): the text of the file, or a throw.
ReadFileSync(cond, content) ==
  IF cond = "unreadable" THEN [threw |-> TRUE, kind |-> "none", value |-> <<>>]
  ELSE [threw |-> FALSE, kind |-> IF cond = "array" THEN "json" ELSE cond,
        value |-> IF cond = "array" THEN content ELSE <<>>]

\* The text "[]", as written in the source.
EmptyArrayText == [threw |-> FALSE, kind |-> "json", value |-> <<>>]

\* !raw.trim(): the text is empty once its blanks are cut.
TrimIsEmpty(raw) == raw.kind \in {"empty", "blank"}

\* content || "[]": only the empty text is falsy.
TextOr(raw, other) == IF raw.kind = "empty" THEN other ELSE raw

\* JSON.parse(text): the value, or a throw (SyntaxError) for text that is not
\* JSON; a text of blanks only is not JSON.
JSONParse(raw) ==
  IF raw.kind = "json" THEN [threw |-> FALSE, value |-> raw.value]
  ELSE [threw |-> TRUE, value |-> <<>>]

Returned(value) == [value |-> value, raised |-> ""]

\* safeReadJSON(file, fallback), statement by statement.
SafeReadJSONFile(cond, content, fallback) ==
  IF ~ExistsSync(cond) THEN Returned(fallback)
  ELSE LET raw == ReadFileSync(cond, content)
       IN IF raw.threw THEN Returned(fallback)                 \* catch
          ELSE IF TrimIsEmpty(raw) THEN Returned(fallback)
          ELSE LET p == JSONParse(raw)
               IN IF p.threw THEN Returned(fallback)           \* catch
                  ELSE Returned(p.value)

\* readJSON written without its try and catch.
ReadJSONFile_NoCatch(cond, content) ==
  IF ~ExistsSync(cond) THEN Returned(<<>>)
  ELSE LET raw == ReadFileSync(cond, content)
       IN IF raw.threw THEN [value |-> <<>>, raised |-> "Error"]
          ELSE LET p == JSONParse(TextOr(raw, EmptyArrayText))
               IN IF p.threw THEN [value |-> <<>>, raised |-> "SyntaxError"]
                  ELSE Returned(p.value)

\* readJSON(filePath), statement by statement.
ReadJSONFile(cond, content) ==
  IF ~ExistsSync(cond) THEN Returned(<<>>)
  ELSE LET raw == ReadFileSync(cond, content)
       IN IF raw.threw THEN Returned(<<>>)                     \* catch
          ELSE LET p == JSONParse(TextOr(raw, EmptyArrayText))
               IN IF p.threw THEN Returned(<<>>)               \* catch
                  ELSE Returned(p.value)

\* One call of a reader on file f found in condition cond; files[f] is the
\* array the file holds when its text is JSON.
ReadAll(reader, f, cond) ==
  LET r == IF reader = "safeReadJSON" THEN SafeReadJSONFile(cond, files[f], <<>>)
           ELSE ReadJSONFile(cond, files[f])
  IN /\ last' = [NoResp EXCEPT !.op = reader, !.file = f, !.cond = cond,
                   !.data = r.value, !.error = r.raised]
     /\ UNCHANGED <<files, ext, now>>

\* ------------------------------------------------------------ the requests
Present == Str(<<"v">>)
\* A text field as a client may send it: missing, empty, or filled in.
FieldVals == {Absent, Str(<<>>), Present}
EmailA == Str(<<"a">>)
EmailB == Str(<<"b">>)
Emails == {EmailA, EmailB}
\* A date field sent by the client, spelling a time the server clock never shows.
ClientDate == Num(<<"9">>)

CountVals == {Absent, Num(<<"0">>), Num(<<"2">>), Num(<<"-", "1">>),
              Str(<<"x">>), Str(<<"2", "x">>)}
TotalVals == {Absent, Num(<<"0">>), Num(<<"1", "0", "0">>), Str(<<"x">>)}

\* The bodies that leave out or blank one of the required fields, or all of them.
Defective(required, full) ==
  { [full EXCEPT ![f] = v] : f \in required, v \in {Absent, Str(<<>>)} }
  \cup { [f \in DOMAIN full |-> IF f \in required THEN Absent ELSE full[f]] }

DonateFull ==
  [name |-> Present, email |-> EmailA, phone |-> Present, parcelName |-> Absent,
   parcelCount |-> Absent, totalAmount |-> Absent, date |-> Absent]

DonateBodies ==
  Defective({"name", "email", "phone"}, DonateFull)
  \cup { DonateFull,
         [DonateFull EXCEPT !.email = EmailB, !.parcelName = Str(<<"Kit">>),
                            !.parcelCount = Num(<<"2">>), !.date = ClientDate] }

\* Donations with every spelling of parcelCount and totalAmount.
DonateAmountBodies ==
  { [DonateFull EXCEPT !.parcelCount = c, !.totalAmount = t] :
      c \in CountVals, t \in TotalVals }

VolunteerFull ==
  [name |-> Present, email |-> EmailA, phone |-> Present, help |-> Present,
   message |-> Absent, date |-> Absent]

VolunteerBodies ==
  Defective({"name", "email", "phone", "help"}, VolunteerFull)
  \cup { VolunteerFull,
         [VolunteerFull EXCEPT !.email = EmailB, !.message = Str(<<"hi">>),
                               !.date = ClientDate] }

ContactFull == [name |-> Present, email |-> EmailA, message |-> Present, date |-> Absent]

ContactBodies ==
  Defective({"name", "email", "message"}, ContactFull)
  \cup { ContactFull, [ContactFull EXCEPT !.email = EmailB, !.date = ClientDate] }

NewsletterBodies ==
  { [email |-> e, date |-> IF e = EmailB THEN ClientDate ELSE Absent] :
       e \in {Absent, Str(<<>>), Str(<<" ">>), Str(<<"a">>), Str(<<"A">>),
              Str(<<" ", "a">>), Str(<<"A", " ">>), Str(<<"b">>), Num(<<"2">>)} }

\* ------------------------------------------------------- POST /api/donate
DonateInvalid(body) == Falsy(body.name) \/ Falsy(body.email) \/ Falsy(body.phone)

CountNum(body) == NumOr(ParseInt(body.parcelCount), 1)

\* The default total written as the price of one parcel.
TotalNum_Flat(body) == NumOr(ParseInt(body.totalAmount), ParcelPrice)

TotalNum(body) == NumOr(ParseInt(body.totalAmount), CountNum(body) * ParcelPrice)

DonationEntry(body, date) ==
  [name |-> body.name, email |-> body.email, phone |-> body.phone,
   parcelName |-> OrDefault(body.parcelName, Str(<<>>)),
   parcelCount |-> CountNum(body), totalAmount |-> TotalNum(body), date |-> date]

\* What the claims call a submission lacking a field: not sent, or sent empty.
Lacks(body, required) == \E f \in required : body[f] \in {Absent, Str(<<>>)}

Donate(body, readOk, writeOk) ==
  /\ TotalRecords < MaxRecords
  /\ IF DonateInvalid(body)
       THEN /\ last' = [NoResp EXCEPT !.op = "donate", !.status = 400,
                          !.lacking = Lacks(body, {"name", "email", "phone"})]
            /\ UNCHANGED <<files, ext, now>>
       ELSE LET r == PushEntry(files, DONATIONS_FILE, DonationEntry(body, now), readOk, writeOk)
            IN /\ files' = r.files
               /\ last' = [NoResp EXCEPT !.op = "donate", !.status = 200, !.count = r.count,
                             !.lacking = Lacks(body, {"name", "email", "phone"}),
                             !.readOk = readOk, !.wrote = r.wrote,
                             !.parcelCount = body.parcelCount,
                             !.totalAmount = body.totalAmount]
               /\ UNCHANGED <<ext, now>>

\* -------------------------------------------------- GET /api/donate/count
DonateCount(readOk) ==
  /\ last' = [NoResp EXCEPT !.op = "count", !.status = 200, !.readOk = readOk,
                !.count = Len(SafeReadJSON(files, DONATIONS_FILE, readOk))]
  /\ UNCHANGED <<files, ext, now>>

\* ---------------------------------------------------- POST /api/volunteer
\* The validation of /api/volunteer written without "|| !help".
VolunteerInvalid_NoHelp(body) ==
  Falsy(body.name) \/ Falsy(body.email) \/ Falsy(body.phone)

VolunteerInvalid(body) ==
  Falsy(body.name) \/ Falsy(body.email) \/ Falsy(body.phone) \/ Falsy(body.help)

VolunteerEntry(body, date) ==
  [name |-> body.name, email |-> body.email, phone |-> body.phone, help |-> body.help,
   message |-> OrDefault(body.message, Str(<<>>)), date |-> date]

Volunteer(body, readOk, writeOk) ==
  /\ TotalRecords < MaxRecords
  /\ IF VolunteerInvalid(body)
       THEN /\ last' = [NoResp EXCEPT !.op = "volunteer", !.status = 400,
                          !.lacking = Lacks(body, {"name", "email", "phone", "help"})]
            /\ UNCHANGED <<files, ext, now>>
       ELSE LET r == PushEntry(files, VOLUNTEER_FILE, VolunteerEntry(body, now), readOk, writeOk)
            IN /\ files' = r.files
               /\ last' = [NoResp EXCEPT !.op = "volunteer", !.status = 200,
                             !.lacking = Lacks(body, {"name", "email", "phone", "help"}),
                             !.readOk = readOk, !.wrote = r.wrote]
               /\ UNCHANGED <<ext, now>>

\* ------------------------------------------------------ POST /api/contact
ContactInvalid(body) == Falsy(body.name) \/ Falsy(body.email) \/ Falsy(body.message)

ContactEntry(body, date) ==
  [name |-> body.name, email |-> body.email, message |-> body.message, date |-> date]

\* The handler written with the failure of the read or of the write passed on
\* to the caller.
Contact_Surfacing(body, readOk, writeOk) ==
  /\ TotalRecords < MaxRecords
  /\ IF ContactInvalid(body)
       THEN /\ last' = [NoResp EXCEPT !.op = "contact", !.status = 400,
                          !.lacking = Lacks(body, {"name", "email", "message"})]
            /\ UNCHANGED <<files, ext, now>>
       ELSE LET r == PushEntry(files, CONTACT_FILE, ContactEntry(body, now), readOk, writeOk)
            IN /\ files' = r.files
               /\ last' = [NoResp EXCEPT !.op = "contact",
                             !.status = IF readOk /\ writeOk THEN 200 ELSE 500,
                             !.error = IF readOk /\ writeOk THEN "" ELSE "Error",
                             !.lacking = Lacks(body, {"name", "email", "message"}),
                             !.readOk = readOk, !.wrote = r.wrote]
               /\ UNCHANGED <<ext, now>>

Contact(body, readOk, writeOk) ==
  /\ TotalRecords < MaxRecords
  /\ IF ContactInvalid(body)
       THEN /\ last' = [NoResp EXCEPT !.op = "contact", !.status = 400,
                          !.lacking = Lacks(body, {"name", "email", "message"})]
            /\ UNCHANGED <<files, ext, now>>
       ELSE LET r == PushEntry(files, CONTACT_FILE, ContactEntry(body, now), readOk, writeOk)
            IN /\ files' = r.files
               /\ last' = [NoResp EXCEPT !.op = "contact", !.status = 200,
                             !.lacking = Lacks(body, {"name", "email", "message"}),
                             !.readOk = readOk, !.wrote = r.wrote]
               /\ UNCHANGED <<ext, now>>

\* --------------------------------------------------- POST /api/newsletter
NewsletterInvalid(body) == Falsy(body.email)

\* typeof e === "string"
IsString(e) == "k" \in DOMAIN e /\ e.k = "str"

\* The callback of list.some: a bare string is compared lower-cased, an object
\* by its email field (e.email?.toLowerCase()).
SameSubscriber(e, lower) ==
  IF IsString(e) THEN ToLowerCase(e.s) = lower
  ELSE /\ "email" \in DOMAIN e
       /\ IsString(e.email)
       /\ ToLowerCase(e.email.s) = lower

Subscribed(list, lower) == \E i \in 1..Len(list) : SameSubscriber(list[i], lower)

Newsletter(body, readOk, writeOk) ==
  /\ TotalRecords < MaxRecords
  /\ IF NewsletterInvalid(body)
       THEN /\ last' = [NoResp EXCEPT !.op = "newsletter", !.status = 400,
                          !.lacking = Lacks(body, {"email"}), !.email = body.email]
            /\ UNCHANGED <<files, ext, now>>
     ELSE IF body.email.k # "str"
       \* email.trim is not a function: the handler throws, Express answers 500
       THEN /\ last' = [NoResp EXCEPT !.op = "newsletter", !.status = 500,
                          !.lacking = Lacks(body, {"email"}),
                          !.error = "TypeError", !.email = body.email]
            /\ UNCHANGED <<files, ext, now>>
     ELSE LET list == SafeReadJSON(files, NEWSLETTER_FILE, readOk)
              lower == ToLowerCase(Trim(body.email.s))
              exists == Subscribed(list, lower)
              w == SafeWriteJSON(files, NEWSLETTER_FILE,
                                 Append(list, Str(Trim(body.email.s))), writeOk)
          IN /\ files' = IF exists THEN files ELSE w.files
             /\ last' = [NoResp EXCEPT !.op = "newsletter", !.status = 200,
                           !.lacking = Lacks(body, {"email"}),
                           !.readOk = readOk, !.wrote = (~exists /\ w.ok),
                           !.email = body.email]
             /\ UNCHANGED <<ext, now>>

\* ------------------------------------------------------ POST /admin/login
\* The handler written with the test of the id alone.
AdminLogin_IdOnly(id, password) ==
  /\ last' = IF id = ADMIN_ID
               THEN [NoResp EXCEPT !.op = "login", !.status = 200,
                       !.message = "Login successful"]
               ELSE [NoResp EXCEPT !.op = "login", !.status = 401,
                       !.message = "Invalid ID or password"]
  /\ UNCHANGED <<files, ext, now>>

\* { success: true, message } with status 200, or { success: false, message }
\* with status 401; success is status = 200.
AdminLogin(id, password) ==
  /\ last' = IF id = ADMIN_ID /\ password = ADMIN_PASS
               THEN [NoResp EXCEPT !.op = "login", !.status = 200,
                       !.message = "Login successful"]
               ELSE [NoResp EXCEPT !.op = "login", !.status = 401,
                       !.message = "Invalid ID or password"]
  /\ UNCHANGED <<files, ext, now>>

\* ------------------------------------------------------------ identifiers
\* The bindings of the module scope (imports, consts and functions declared at
\* the top level of the file).
ModuleScope ==
  {"express", "fs", "path", "bodyParser", "fileURLToPath", "mongoose",
   "donationSchema", "volunteerSchema", "contactSchema", "newsletterSchema",
   "Donation", "Volunteer", "Contact", "Newsletter",
   "__filename", "__dirname", "DATA_DIR",
   "DONATIONS_FILE", "VOLUNTEER_FILE", "NEWSLETTER_FILE", "CONTACT_FILE",
   "ensureFile", "readJSON", "safeReadJSON", "safeWriteJSON", "pushEntry",
   "app", "PORT", "ADMIN_ID", "ADMIN_PASS", "arraysEqual", "syncToMongoDB"}

\* Inside the GET /admin/data callback: its parameters and its four consts.
AdminDataScope ==
  ModuleScope \cup {"req", "res", "donationsFile", "volunteerFile",
                    "contactFile", "newsletterFile"}

\* Inside syncToMongoDB, where the first statement of the try block is evaluated.
SyncScope == ModuleScope

\* Evaluating an identifier with no binding in scope throws a ReferenceError.
Bound(names, scope) == names \subseteq scope

\* -------------------------------------------------------- GET /admin/data
AdminData ==
  /\ last' = IF Bound({"donations", "volunteer", "newsletter", "contact"}, AdminDataScope)
               THEN [NoResp EXCEPT !.op = "adminData", !.status = 200]
               ELSE [NoResp EXCEPT !.op = "adminData", !.status = 500,
                       !.error = "ReferenceError"]
  /\ UNCHANGED <<files, ext, now>>

\* ------------------------------------------------------ the mongoose models
DigitChar(d) == CHOOSE c \in Digits : DigitVal(c) = d

RECURSIVE NatToStr(_)
NatToStr(n) ==
  IF n < 10 THEN <<DigitChar(n)>> ELSE NatToStr(n \div 10) \o <<DigitChar(n % 10)>>

\* The cast of a number to a schema field of type String.
CastString(n) == Str(IF n < 0 THEN <<"-">> \o NatToStr(0 - n) ELSE NatToStr(n))

\* Donation.create(entry): donationSchema keeps the paths it declares (totalAmount
\* is not one of them) and casts parcelCount to String.
DonationDoc(entry) ==
  [name |-> entry.name, email |-> entry.email, phone |-> entry.phone,
   parcelName |-> entry.parcelName, parcelCount |-> CastString(entry.parcelCount),
   date |-> entry.date]

VolunteerDoc(entry) ==
  [name |-> entry.name, email |-> entry.email, phone |-> entry.phone,
   help |-> entry.help, message |-> entry.message, date |-> entry.date]

ContactDoc(entry) ==
  [name |-> entry.name, email |-> entry.email, message |-> entry.message,
   date |-> entry.date]

\* const email = typeof entry === "string" ? entry : entry.email
NewsletterEmail(entry) == IF IsString(entry) THEN entry ELSE entry.email

NewsletterDoc(entry, date) == [email |-> NewsletterEmail(entry), date |-> date]

\* The filter of findOne for one local entry: ({email, date}), or ({email}).
SameKey(file, doc, entry) ==
  IF file = NEWSLETTER_FILE
    THEN doc.email = NewsletterEmail(entry)
    ELSE doc.email = entry.email /\ doc.date = entry.date

MakeDoc(file, entry, date) ==
  CASE file = DONATIONS_FILE -> DonationDoc(entry)
    [] file = VOLUNTEER_FILE -> VolunteerDoc(entry)
    [] file = CONTACT_FILE -> ContactDoc(entry)
    [] file = NEWSLETTER_FILE -> NewsletterDoc(entry, date)

\* One for-of loop: findOne, and create when nothing matched.
RECURSIVE SyncColl(_, _, _, _)
SyncColl(file, docs, entries, date) ==
  IF entries = <<>> THEN docs
  ELSE LET entry == Head(entries)
           exists == \E i \in 1..Len(docs) : SameKey(file, docs[i], entry)
       IN SyncColl(file,
                   IF exists THEN docs ELSE Append(docs, MakeDoc(file, entry, date)),
                   Tail(entries), date)

\* The four blocks of the try body, in order, with the identifier each reads.
SyncOrder ==
  << [file |-> DONATIONS_FILE, id |-> "donationsFile"],
     [file |-> VOLUNTEER_FILE, id |-> "volunteerFile"],
     [file |-> CONTACT_FILE, id |-> "contactFile"],
     [file |-> NEWSLETTER_FILE, id |-> "newsletterFile"] >>

\* The try body from block i on: what the external store holds when the body
\* ends, and the error that ended it ("" when it ran to the end).  A block
\* first evaluates its file identifier; a findOne on an unreachable store
\* rejects.  scope is the scope the body is evaluated in.
RECURSIVE SyncBlocks(_, _, _, _, _, _, _)
SyncBlocks(i, scope, docs, fs, up, readOk, date) ==
  IF i > Len(SyncOrder) THEN [ext |-> docs, error |-> ""]
  ELSE IF ~Bound({SyncOrder[i].id}, scope)
    THEN [ext |-> docs, error |-> "ReferenceError"]
  ELSE LET file == SyncOrder[i].file
           entries == ReadJSON(fs, file, readOk)
       IN IF entries # <<>> /\ ~up
            THEN [ext |-> docs, error |-> "MongoError"]
            ELSE SyncBlocks(i + 1, scope,
                            [docs EXCEPT ![file] = SyncColl(file, docs[file], entries, date)],
                            fs, up, readOk, date)

\* A sync written as a migration: it empties the local files when it is done.
SyncToMongoDB_Move(up, readOk) ==
  /\ ext' = SyncBlocks(1, SyncScope, ext, files, up, readOk, now).ext
  /\ files' = [f \in Files |-> <<>>]
  /\ last' = [NoResp EXCEPT !.op = "sync"]
  /\ UNCHANGED now

\* ------------------------------------------- setInterval(syncToMongoDB, ...)
\* One timer callback.  The error of the try body is caught and logged.  As
\* the code stands the body ends at its first statement, before any await, so
\* a run is one step.  last.runs is 1 after a first run and then 2 and 3 in
\* turn (two or more runs in a row), so that every callback is a step.
SyncToMongoDB(up, readOk) ==
  LET r == SyncBlocks(1, SyncScope, ext, files, up, readOk, now)
  IN /\ ext' = r.ext
     /\ last' = [NoResp EXCEPT !.op = "sync", !.error = r.error,
                   !.runs = IF last.op # "sync" THEN 1 ELSE IF last.runs = 2 THEN 3 ELSE 2,
                   !.up = up /\ (last.op = "sync" => last.up)]
     /\ UNCHANGED <<files, now>>

\* ------------------------------------------------------------ the machine
\* The clock advances.
Tick ==
  /\ now < MaxTime
  /\ now' = now + 1
  /\ UNCHANGED <<files, ext, last>>

\* ensureFile has written [] to every file; the backup database is empty.
Init ==
  /\ files = [f \in Files |-> <<>>]
  /\ ext = [f \in Files |-> <<>>]
  /\ now = 0
  /\ last = NoResp

\* What a client may send as id or as password: the configured value, another
\* one, or nothing ("" stands for an empty and for a missing field: neither is
\* === to the configured value).
Credentials == {ADMIN_ID, "wrong", ""}

DonateStep == \E body \in DonateBodies, readOk \in BOOLEAN, writeOk \in BOOLEAN :
                Donate(body, readOk, writeOk)
DonateCountStep == \E readOk \in BOOLEAN : DonateCount(readOk)
VolunteerStep == \E body \in VolunteerBodies, readOk \in BOOLEAN, writeOk \in BOOLEAN :
                   Volunteer(body, readOk, writeOk)
ContactStep == \E body \in ContactBodies, readOk \in BOOLEAN, writeOk \in BOOLEAN :
                 Contact(body, readOk, writeOk)
NewsletterStep == \E body \in NewsletterBodies, readOk \in BOOLEAN, writeOk \in BOOLEAN :
                    Newsletter(body, readOk, writeOk)
AdminLoginStep == \E id \in Credentials, password \in Credentials : AdminLogin(id, password)
SyncStep == \E up \in BOOLEAN, readOk \in BOOLEAN : SyncToMongoDB(up, readOk)

Next ==
  \/ DonateStep
  \/ DonateCountStep
  \/ VolunteerStep
  \/ ContactStep
  \/ NewsletterStep
  \/ AdminLoginStep
  \/ AdminData
  \/ SyncStep
  \/ Tick

Spec == Init /\ [][Next]_vars

\* The timer keeps firing, and the external store is reachable again and again.
FairSpec ==
  /\ Spec
  /\ WF_vars(SyncStep)
  /\ SF_vars(\E readOk \in BOOLEAN : SyncToMongoDB(TRUE, readOk))

\* Donation handling alone, over every spelling of parcelCount and totalAmount.
DonateAmountStep ==
  \E body \in DonateAmountBodies, readOk \in BOOLEAN, writeOk \in BOOLEAN :
    Donate(body, readOk, writeOk)

NextDonate == DonateAmountStep \/ DonateCountStep

SpecDonate == Init /\ [][NextDonate]_vars

\* The two readers alone, over files holding every array of SampleArrays and
\* found in every condition.
SampleArrays == {<<>>, <<EmailA>>, <<EmailA, EmailB>>, <<EmailB, EmailA>>}

InitRead ==
  /\ files \in [Files -> SampleArrays]
  /\ ext = [f \in Files |-> <<>>]
  /\ now = 0
  /\ last = NoResp

ReadAllStep ==
  \E reader \in {"safeReadJSON", "readJSON"}, f \in Files, cond \in FileConds :
    ReadAll(reader, f, cond)

SpecRead == InitRead /\ [][ReadAllStep]_vars

\* ================================================================ claims
IsPrefix(s, t) == Len(s) <= Len(t) /\ SubSeq(t, 1, Len(s)) = s

\* Every element of s still occurs in t.
Kept(s, t) == \A i \in 1..Len(s) : \E j \in 1..Len(t) : t[j] = s[i]

\* A stored or submitted address after trimming and lower-casing.
NormalizedEmail(v) == ToLowerCase(Trim(v.s))

NoTwoAlike(list) ==
  \A i, j \in 1..Len(list) :
    i # j => NormalizedEmail(list[i]) # NormalizedEmail(list[j])

AlreadyListed(list, v) ==
  v.k = "str" /\ \E i \in 1..Len(list) : NormalizedEmail(list[i]) = NormalizedEmail(v)

\* C1: the newsletter file never holds two entries with the same trimmed,
\* lower-cased address, and a newsletter submission whose normalized address is
\* already in the file leaves the file as it was.
C1_NewsletterDedup ==
  [][ /\ NoTwoAlike(files'[NEWSLETTER_FILE])
      /\ (last'.op = "newsletter" /\ last'.status = 200
          /\ AlreadyListed(files[NEWSLETTER_FILE], last'.email))
           => files'[NEWSLETTER_FILE] = files[NEWSLETTER_FILE] ]_vars

HasCopy(file, entry) == \E j \in 1..Len(ext[file]) : SameKey(file, ext[file][j], entry)

ExactCopy ==
  \A f \in Files :
    /\ Len(ext[f]) = Len(files[f])
    /\ \A i \in 1..Len(files[f]) : HasCopy(f, files[f][i])

\* C2: after two sync runs in a row, with the external store reachable in both
\* and no request in between, the external store holds exactly one document
\* per local record of every file.
C2_SyncTwiceExactCopy ==
  (last.op = "sync" /\ last.runs >= 2 /\ last.up) => ExactCopy

\* C3: a sync run leaves every local file unchanged and keeps every document
\* the external store already held.
C3_SyncAdditive ==
  [][ SyncStep => /\ files' = files
                  /\ \A f \in Files : Kept(ext[f], ext'[f]) ]_vars

\* A sync run has just ended while the local store held records.
C3_Witness == last.op = "sync" /\ TotalRecords > 0

\* The addresses and dates a dedup key can be made of.
KeyEmails == {Str(<<>>), EmailA, Str(<<"A">>), EmailB}
KeyDates == 0..MaxTime

StoredKey(f, e, d) ==
  \E i \in 1..Len(files[f]) :
    IF f = NEWSLETTER_FILE THEN files[f][i] = e
    ELSE files[f][i].email = e /\ files[f][i].date = d

CopiedKey(f, e, d) ==
  \E j \in 1..Len(ext[f]) :
    ext[f][j].email = e /\ (f = NEWSLETTER_FILE \/ ext[f][j].date = d)

\* C5: with the timer firing for ever and the external store reachable again
\* and again, every record held in a local file eventually has a document with
\* its dedup key in the external store.
C5_EventualSync ==
  \A f \in Files : \A e \in KeyEmails : \A d \in KeyDates :
    StoredKey(f, e, d) ~> CopiedKey(f, e, d)

\* C6: an append (donate, volunteer, contact) whose read of the file failed
\* keeps every record the file held before it.
C6_AppendKeepsOnReadFailure ==
  [][ (last'.op \in {"donate", "volunteer", "contact"} /\ last'.status = 200
       /\ ~last'.readOk)
        => \A f \in Files : Kept(files[f], files'[f]) ]_vars

\* C7: every step leaves each file's previous content as a prefix of its new
\* content: records are only ever added at the end.
C7_AppendOnly ==
  [][ \A f \in Files : IsPrefix(files[f], files'[f]) ]_vars

\* C8: a submission that lacks a required field is answered 400 and leaves all
\* four files unchanged.
C8_RejectsIncomplete ==
  [][ (last'.op \in {"donate", "volunteer", "contact", "newsletter"} /\ last'.lacking)
        => (last'.status = 400 /\ files' = files) ]_vars

\* A volunteer form lacking a field was refused while records were stored.
C8_Witness ==
  /\ last.op = "volunteer" /\ last.lacking /\ last.status = 400
  /\ TotalRecords > 0

\* C9: the count an accepted donation returns is the number of donations stored
\* after it, and one more than the number stored before it.
C9_CountIsStoredCount ==
  [][ (DonateStep /\ last'.status = 200)
        => /\ last'.count = Len(files'[DONATIONS_FILE])
           /\ last'.count = Len(files[DONATIONS_FILE]) + 1 ]_vars

\* The integers a client may spell in this model, and their decimal spelling.
Spellable == -10..100
Spelling(n) == IF n < 0 THEN <<"-">> \o NatToStr(0 - n) ELSE NatToStr(n)

\* s spells an integer, and which.
IsIntegerText(s) == \E n \in Spellable : Spelling(n) = s
IntegerOf(s) == CHOOSE n \in Spellable : Spelling(n) = s

\* The submitted value is an integer (a number, or a string spelling one).
SubmittedInteger(v) == v.k # "absent" /\ IsIntegerText(v.s)

\* The record the latest accepted donation stored.
StoredDonation == files[DONATIONS_FILE][Len(files[DONATIONS_FILE])]

DonationStored == last.op = "donate" /\ last.status = 200 /\ last.wrote

\* C10 as stated: the stored parcelCount is the submitted integer, or 1 when it
\* was omitted or is not numeric; the stored totalAmount is the submitted
\* integer, or parcelCount * 75 when it was omitted or is not numeric.
C10_DefaultsAsStated ==
  DonationStored =>
    /\ StoredDonation.parcelCount =
         IF SubmittedInteger(last.parcelCount) THEN IntegerOf(last.parcelCount.s) ELSE 1
    /\ StoredDonation.totalAmount =
         IF SubmittedInteger(last.totalAmount) THEN IntegerOf(last.totalAmount.s)
         ELSE StoredDonation.parcelCount * 75

\* The integers spelled by a front part of s, leading blanks aside.
LeadingIntegers(s) ==
  LET t == TrimStart(s)
  IN { k \in 1..Len(t) : IsIntegerText(SubSeq(t, 1, k)) }

\* The integer at the front of the submitted value (its longest spelling), or
\* 0 when the value was omitted or starts with none.
LeadingInteger(v) ==
  IF v.k = "absent" \/ LeadingIntegers(v.s) = {} THEN 0
  ELSE LET t == TrimStart(v.s)
           k == CHOOSE m \in LeadingIntegers(v.s) : \A o \in LeadingIntegers(v.s) : o <= m
       IN IntegerOf(SubSeq(t, 1, k))

\* C10 as amended: the stored parcelCount is the integer at the front of the
\* submitted value when there is one and it is not zero, and 1 otherwise; the
\* stored totalAmount is the integer at the front of the submitted value when
\* there is one and it is not zero, and parcelCount * 75 otherwise.
C10_Defaults ==
  DonationStored =>
    /\ StoredDonation.parcelCount =
         IF LeadingInteger(last.parcelCount) # 0 THEN LeadingInteger(last.parcelCount) ELSE 1
    /\ StoredDonation.totalAmount =
         IF LeadingInteger(last.totalAmount) # 0 THEN LeadingInteger(last.totalAmount)
         ELSE StoredDonation.parcelCount * 75

\* A donation of two parcels with no total was stored with the default total.
C10_Witness ==
  /\ DonationStored
  /\ last.parcelCount = Num(<<"2">>) /\ last.totalAmount = Absent
  /\ StoredDonation.parcelCount = 2 /\ StoredDonation.totalAmount = 150

\* C11: every donation record in the store has an integer parcelCount of at
\* least 1, whatever was submitted (zero, a negative number, a non-numeric value).
C11_ParcelCountAtLeastOne ==
  \A i \in 1..Len(files[DONATIONS_FILE]) :
    /\ files[DONATIONS_FILE][i].parcelCount \in Int
    /\ files[DONATIONS_FILE][i].parcelCount >= 1

\* C12: a read of a whole collection never raises: for a file that is missing,
\* empty or unparsable it returns the empty sequence, and for a file holding a
\* valid array it returns exactly that sequence, in order.
C12_ReadAllNeverRaises ==
  last.op \in {"safeReadJSON", "readJSON"} =>
    /\ last.error = ""
    /\ last.cond \in {"missing", "unreadable", "empty", "blank", "garbage"}
         => last.data = <<>>
    /\ last.cond = "array" => last.data = files[last.file]

\* readJSON met a file of two records whose text is not JSON and returned [].
C12_Witness ==
  /\ last.op = "readJSON" /\ last.cond = "garbage"
  /\ Len(files[last.file]) = 2
  /\ last.data = <<>> /\ last.error = ""

LastOf(s) == s[Len(s)]

\* C13: every record stored in any of the four collections carries a
\* creation timestamp assigned by the server at the moment it is appended; a
\* date supplied by the client never becomes the stored timestamp.
C13_Timestamped ==
  [][\A f \in Files :
       files'[f] # files[f] =>
         /\ files'[f] # <<>>
         /\ "date" \in DOMAIN LastOf(files'[f])
         /\ LastOf(files'[f]).date = now]_vars

\* The one answer to a login that fails.
LoginFailure ==
  [NoResp EXCEPT !.op = "login", !.status = 401, !.message = "Invalid ID or password"]

\* C14: a login attempt succeeds exactly when both the submitted id and the
\* submitted password equal the configured pair; every failing pair gets the
\* same failure response, whichever field was wrong; a login, accepted or
\* not, changes nothing stored.
C14_Login ==
  [][\A id \in Credentials, password \in Credentials :
       AdminLogin(id, password) =>
         /\ (last'.status = 200) <=> (id = ADMIN_ID /\ password = ADMIN_PASS)
         /\ ~(id = ADMIN_ID /\ password = ADMIN_PASS) => last' = LoginFailure
         /\ files' = files /\ ext' = ext]_vars

\* A login was refused while records were stored.
C14_Witness ==
  /\ last.op = "login" /\ last.status = 401
  /\ TotalRecords > 0

\* C15: a GET /admin/data, in every reachable state and with or without an
\* earlier login, answers for each of the four collections exactly the
\* sequence of records the store holds, and leaves every record as it was.
C15_AdminDataReturnsStore ==
  last.op = "adminData" =>
    /\ last.status = 200
    /\ last.data = files

Submissions == {"donate", "volunteer", "contact", "newsletter"}

\* The latest request was a submission with every required field filled in.
ValidlyFielded ==
  /\ last.op \in Submissions
  /\ ~last.lacking
  /\ last.op = "newsletter" => IsString(last.email)

\* C19: a failure to read or to write the collection file during a submission
\* is never passed on to the caller: a submission with valid fields gets its
\* normal success response when the file cannot be read, cannot be parsed or
\* cannot be written. (~last.wrote: the write failed, or, for a newsletter
\* address already listed, was not attempted.)
C19_FailureNotSurfaced ==
  (ValidlyFielded /\ (~last.readOk \/ ~last.wrote)) =>
    /\ last.status = 200
    /\ last.error = ""

\* A contact message was confirmed although both the read and the write of
\* contact.json failed, after an earlier message had been stored.
C19_Witness ==
  /\ last.op = "contact" /\ ~last.lacking
  /\ ~last.readOk /\ ~last.wrote
  /\ last.status = 200
  /\ Len(files[CONTACT_FILE]) = 1

====
